---- MODULE Spec2Model ----
(***************************************************************************)
(* Model of the employee-data change pipeline of demo-hr-automation:       *)
(* src/langg_automation.py (classification, routing, extraction, record    *)
(* lookup and overlay).                                                    *)
(***************************************************************************)
EXTENDS Integers, Sequences, FiniteSets, TLC

VARIABLES
    gwDecision,      \* what classificator.invoke will answer (gateway, structured)
    gwOutput,        \* what model.invoke will answer (gateway, free text)
    dataset,         \* data/employee_data.csv on disk
    pc,              \* position of the invocation in the graph / in request_processor
    state,           \* the graph's State dictionary (key -> value)
    output,          \* request_processor local: output.content
    changes,         \* request_processor local: json.loads(output.content)
    raw_gdp_df,      \* request_processor local: the loaded store
    matching_entry,  \* request_processor local: the located rows
    new_values,      \* request_processor local: the copy that is overlaid
    result,          \* what process_employee_request hands to its caller
    visited,         \* the graph nodes executed so far, in order
    calls,           \* number of gateway calls and store loads made so far
    api_key,         \* create_workflow's api_key argument
    environ,         \* os.environ["ANTHROPIC_API_KEY"], None when unset
    dotenv,          \* ANTHROPIC_API_KEY in the .env file, None when absent
    model,           \* the key ChatAnthropic was built with, None before that
    caller,          \* who called process_employee_request: "direct" or "ui"
    session,         \* st.session_state
    email,           \* the text area's content when Process Email was clicked
    ui_result,       \* what process_email_with_langgraph returned to the handler
    page,            \* what the last script run drew
    history,         \* the last successful Process Email, and whether Accept followed it
    active,          \* which of two concurrent invocations takes the next step
    parked,          \* the locals of the invocation that is not taking the step
    environ0         \* environ when the invocations started

\* one invocation of the pipeline
invocation == <<pc, state, output, changes, raw_gdp_df, matching_entry, new_values,
                result, visited, calls>>
\* the credential, the caller and the user interface: no stage touches them
concurrent == <<active, parked, environ0>>
outer == <<api_key, environ, dotenv, model, caller, session, email, ui_result, page,
           history, concurrent>>

vars == <<gwDecision, gwOutput, dataset, pc, state, output, changes, raw_gdp_df,
          matching_entry, new_values, result, visited, calls, outer>>

(***************************************************************************)
(* Bounds                                                                  *)
(***************************************************************************)
MaxRows == 2

(***************************************************************************)
(* Python values.  t is the Python type, v the text of the value (what     *)
(* str() gives), n its numeric value (bool and int), items the members of  *)
(* a list (values) or of a dict (key/value pairs, in insertion order).     *)
(***************************************************************************)
PyStr(s) == [t |-> "str", v |-> s, n |-> 0, items |-> <<>>]
PyInt(s, k) == [t |-> "int", v |-> s, n |-> k, items |-> <<>>]
PyTrue == [t |-> "bool", v |-> "True", n |-> 1, items |-> <<>>]
PyFalse == [t |-> "bool", v |-> "False", n |-> 0, items |-> <<>>]
PyNone == [t |-> "none", v |-> "None", n |-> 0, items |-> <<>>]
PyList(xs) == [t |-> "list", v |-> "", n |-> 0, items |-> xs]
PyDict(kvs) == [t |-> "dict", v |-> "", n |-> 0, items |-> kvs]

IsNumber(a) == a.t \in {"bool", "int"}
IsScalar(a) == a.t \in {"str", "int", "bool", "none"}

\* Python ==: bool is a subclass of int, so True == 1 and False == 0.
PyEq(a, b) ==
    IF IsNumber(a) /\ IsNumber(b) THEN a.n = b.n
    ELSE IF a.t # b.t THEN FALSE
    ELSE IF a.t = "str" THEN a.v = b.v
    ELSE IF a.t = "none" THEN TRUE
    ELSE a.items = b.items

\* str(x) as used by an f-string.
Str(a) == a.v

\* a test that takes every value for true
AlwaysTruthy(a) == TRUE

\* bool(a), as in "if not a": None, "", 0, False and empty containers are false
Truthy(a) ==
    CASE a.t = "none" -> FALSE
      [] a.t = "str" -> a.v # ""
      [] a.t \in {"bool", "int"} -> a.n # 0
      [] OTHER -> a.items # <<>>
\* a small count as it appears in a message
NatStr(k) ==
    CASE k = 0 -> "0" [] k = 1 -> "1" [] k = 2 -> "2" [] k = 3 -> "3" [] k = 4 -> "4"
      [] OTHER -> "many"

\* dict helpers: the pairs are [k |-> key, val |-> value]
Keys(d) == {d.items[i].k : i \in 1..Len(d.items)}
HasKey(d, key) == d.t = "dict" /\ key \in Keys(d)
Get(d, key) == d.items[CHOOSE i \in 1..Len(d.items) : d.items[i].k = key].val
\* d[key] = val while building a dict: a repeated key keeps its place, takes the new value
DictSet(kvs, key, val) ==
    IF \E i \in 1..Len(kvs) : kvs[i].k = key
    THEN [i \in 1..Len(kvs) |-> IF kvs[i].k = key THEN [k |-> key, val |-> val] ELSE kvs[i]]
    ELSE Append(kvs, [k |-> key, val |-> val])

(***************************************************************************)
(* json.loads.  The text is a sequence of lexical tokens: punctuation,     *)
(* double-quoted strings (str), single-quoted strings (sqstr, not JSON),   *)
(* numbers (num) and bare words (word: true, false, null or anything).     *)
(***************************************************************************)
Punct(c) == [t |-> "punct", v |-> c, n |-> 0]
DQ(s) == [t |-> "str", v |-> s, n |-> 0]
SQ(s) == [t |-> "sqstr", v |-> s, n |-> 0]
Num(s, k) == [t |-> "num", v |-> s, n |-> k]
Word(s) == [t |-> "word", v |-> s, n |-> 0]

ParseFail == [ok |-> FALSE, val |-> PyNone, next |-> 0]
ParseOk(val, next) == [ok |-> TRUE, val |-> val, next |-> next]
IsP(toks, i, c) == i <= Len(toks) /\ toks[i] = Punct(c)

RECURSIVE ParseValue(_, _)
RECURSIVE ParseMembers(_, _, _)
RECURSIVE ParseElements(_, _, _)

ParseValue(toks, i) ==
    IF i > Len(toks) THEN ParseFail
    ELSE LET tk == toks[i] IN
         CASE tk.t = "str" -> ParseOk(PyStr(tk.v), i + 1)
           [] tk.t = "num" -> ParseOk(PyInt(tk.v, tk.n), i + 1)
           [] tk.t = "word" /\ tk.v = "true" -> ParseOk(PyTrue, i + 1)
           [] tk.t = "word" /\ tk.v = "false" -> ParseOk(PyFalse, i + 1)
           [] tk.t = "word" /\ tk.v = "null" -> ParseOk(PyNone, i + 1)
           [] tk = Punct("{") -> IF IsP(toks, i + 1, "}")
                             THEN ParseOk(PyDict(<<>>), i + 2)
                             ELSE ParseMembers(toks, i + 1, <<>>)
           [] tk = Punct("[") -> IF IsP(toks, i + 1, "]")
                             THEN ParseOk(PyList(<<>>), i + 2)
                             ELSE ParseElements(toks, i + 1, <<>>)
           [] OTHER -> ParseFail

\* "key": value, then either "," and more members or "}"
ParseMembers(toks, i, acc) ==
    IF ~(i <= Len(toks) /\ toks[i].t = "str" /\ IsP(toks, i + 1, ":")) THEN ParseFail
    ELSE LET r == ParseValue(toks, i + 2) IN
         IF ~r.ok THEN ParseFail
         ELSE LET acc2 == DictSet(acc, toks[i].v, r.val) IN
              IF IsP(toks, r.next, "}") THEN ParseOk(PyDict(acc2), r.next + 1)
              ELSE IF IsP(toks, r.next, ",") THEN ParseMembers(toks, r.next + 1, acc2)
              ELSE ParseFail

\* value, then either "," and more elements or "]"
ParseElements(toks, i, acc) ==
    LET r == ParseValue(toks, i) IN
    IF ~r.ok THEN ParseFail
    ELSE LET acc2 == Append(acc, r.val) IN
         IF IsP(toks, r.next, "]") THEN ParseOk(PyList(acc2), r.next + 1)
         ELSE IF IsP(toks, r.next, ",") THEN ParseElements(toks, r.next + 1, acc2)
         ELSE ParseFail

\* a json.loads that stops at the end of the first value and ignores what follows it
JsonLoadsIgnoringRest(toks) ==
    LET r == ParseValue(toks, 1) IN
    IF r.ok THEN r ELSE ParseFail

\* json.loads(text): one value spanning the whole text, or an exception (ok = FALSE)
JsonLoads(toks) ==
    LET r == ParseValue(toks, 1) IN
    IF r.ok /\ r.next = Len(toks) + 1 THEN r ELSE ParseFail

(***************************************************************************)
(* DataFrames: the column names in order, and the rows (column -> value).  *)
(***************************************************************************)
DataFrame(columns, rows) == [columns |-> columns, rows |-> rows]
\* pd.DataFrame(): no columns and no rows
EmptyDataFrame == DataFrame(<<>>, <<>>)
ColumnSet(df) == {df.columns[i] : i \in 1..Len(df.columns)}
Shape0(df) == Len(df.rows)

\* f[k] = v on a function, adding k when it is new
Update(f, k, v) == [x \in DOMAIN f \cup {k} |-> IF x = k THEN v ELSE f[x]]

\* the columns of data/employee_data.csv kept by the model
CsvColumns == <<"FirstName", "LastName", "PhoneNumber", "IBAN">>
Row(first, last, phone, iban) ==
    [c \in {"FirstName", "LastName", "PhoneNumber", "IBAN"} |->
        CASE c = "FirstName" -> PyStr(first)
          [] c = "LastName" -> PyStr(last)
          [] c = "PhoneNumber" -> PyStr(phone)
          [] c = "IBAN" -> PyStr(iban)]

(***************************************************************************)
(* Inputs of one invocation                                                *)
(***************************************************************************)
Request == "the message"

\* the personal information the extraction prompt enumerates
RecognizedFields ==
    { "FirstName", "LastName", "DateOfBirth", "AHV_Number", "Nationality", "SwissCitizen",
      "WorkPermit", "MaritalStatus", "StreetAddress", "PostalCode", "City", "Canton",
      "PhoneNumber", "PersonalEmail", "JobTitle", "Department", "HireDate",
      "WorkloadPercentage", "AnnualGrossSalary_CHF", "IBAN", "BankName", "TaxAtSource_Code" }

\* rows a dataset may hold: two employees sharing a name, and a third one
CandidateRows ==
    { Row("Leon", "X", "0780000000", "CH01"),
      Row("Leon", "X", "0790000000", "CH02"),
      Row("Paolo", "Rossi", "0760000000", "CH03") }

SeqsUpTo(S, n) == UNION {[1..k -> S] : k \in 0..n}

\* the file is absent, or holds the header and up to MaxRows rows
AbsentDataset == [present |-> FALSE, columns |-> <<>>, rows |-> <<>>]
Datasets ==
    {AbsentDataset} \cup
    {[present |-> TRUE, columns |-> CsvColumns, rows |-> rs] : rs \in SeqsUpTo(CandidateRows, MaxRows)}

KV(k, v) == <<DQ(k), Punct(":"), DQ(v)>>
Comma == <<Punct(",")>>
Obj(members) == <<Punct("{")>> \o members \o <<Punct("}")>>

\* answers that are JSON
JsonTexts ==
    { Obj(KV("FirstName", "Leon") \o Comma \o KV("LastName", "X") \o Comma \o KV("PhoneNumber", "0791234567")),
      Obj(KV("FirstName", "leon") \o Comma \o KV("LastName", "X") \o Comma \o KV("PhoneNumber", "0791234567")),
      Obj(KV("FirstName", "Leon") \o Comma \o KV("LastName", "X")),
      Obj(KV("FirstName", "Paolo") \o Comma \o KV("LastName", "Rossi") \o Comma \o KV("Nickname", "Pao")),
      Obj(KV("FirstName", "Paolo") \o Comma \o KV("LastName", "Rossi") \o Comma
          \o <<DQ("WorkloadPercentage"), Punct(":"), Num("80", 80)>> \o Comma \o KV("IBAN", "CH99")),
      Obj(KV("FirstName", "Anna") \o Comma \o KV("LastName", "Meier") \o Comma \o KV("IBAN", "CH99")),
      Obj(KV("FirstName", "Anna") \o Comma \o KV("FirstName", "Leon") \o Comma \o KV("LastName", "X")),
      Obj(KV("LastName", "Meier") \o Comma \o KV("MaritalStatus", "Married")),
      Obj(KV("FirstName", "Leon") \o Comma \o KV("PhoneNumber", "0791234567")),
      Obj(KV("PhoneNumber", "0791234567")),
      Obj(<<>>),
      <<Punct("["), DQ("Leon"), Punct(","), DQ("X"), Punct("]")>>,
      <<DQ("Leon X")>> }

\* answers that are not JSON
MalformedTexts ==
    { <<Word("not"), Word("json")>>,
      <<>>,
      <<Punct("{"), SQ("LastName"), Punct(":"), SQ("Meier"), Punct("}")>>,
      <<Punct("{")>> \o KV("FirstName", "Leon") \o Comma \o KV("LastName", "X"),
      <<Punct("{")>> \o KV("FirstName", "Leon") \o Comma \o <<Punct("}")>>,
      <<Word("Here"), Word("is"), Word("the"), Word("JSON"), Punct(":")>> \o Obj(KV("FirstName", "Leon") \o Comma \o KV("LastName", "X")),
      Obj(KV("FirstName", "Leon") \o Comma \o KV("LastName", "X")) \o <<Word("Done")>> }

\* answers that are JSON objects with a list as a value
NestedTexts ==
    { Obj(KV("FirstName", "Paolo") \o Comma \o KV("LastName", "Rossi") \o Comma
          \o <<DQ("PhoneNumber"), Punct(":"), Punct("["), DQ("0791234567"), Punct("]")>>),
      Obj(KV("FirstName", "Paolo") \o Comma \o KV("LastName", "Rossi") \o Comma
          \o <<DQ("PhoneNumber"), Punct(":"), Punct("["), DQ("0791234567"), Punct(","),
               DQ("0781234567"), Punct("]")>>) }

Texts == JsonTexts \cup NestedTexts \cup MalformedTexts

GatewayFault == [type |-> "GatewayError", text |-> "", args |-> <<>>]
NoError == [type |-> "", text |-> "", args |-> <<>>]

Decision(c) == [kind |-> "decision", classification |-> c]
DecisionFault == [kind |-> "fault", classification |-> PyNone]
\* RequestClassification.classification is a pydantic bool
Decisions == {Decision(PyTrue), Decision(PyFalse), DecisionFault}

Output(content) == [kind |-> "text", content |-> content]
OutputFault == [kind |-> "fault", content |-> <<>>]
Outputs == {Output(t) : t \in Texts} \cup {OutputFault}

EmptyState == [k \in {} |-> PyNone]
Pending == [kind |-> "pending", state |-> EmptyState, error |-> NoError]

(***************************************************************************)
(* Faults.  text is the message template, args the values it interpolates. *)
(***************************************************************************)
ValueError(text, args) == [type |-> "ValueError", text |-> text, args |-> args]
KeyError(key) == [type |-> "KeyError", text |-> "{}", args |-> <<key>>]
TypeError(text) == [type |-> "TypeError", text |-> text, args |-> <<>>]

RoutingError == ValueError("Invalid decision value", <<>>)
ParseError(content) == ValueError("There was no valid JSON parsed {}", <<content>>)
SearchedName(chg) == <<Str(Get(chg, "FirstName")), Str(Get(chg, "LastName"))>>
NotFoundError(chg) == ValueError("No employee found for {} {}.", SearchedName(chg))
AmbiguousError(chg) == ValueError("Found more than one employee for {} {}.", SearchedName(chg))
\* pandas, on assigning a list whose length is not the frame's
LengthError(values, index) ==
    ValueError("Length of values ({}) does not match length of index ({})",
               <<NatStr(values), NatStr(index)>>)

CredentialError ==
    ValueError("API key must be provided either as parameter or ANTHROPIC_API_KEY environment variable",
               <<>>)
\* str(e): the message without the exception's type; a KeyError shows its key quoted
StrOf(e) == [text |-> IF e.type = "KeyError" THEN "'{}'" ELSE e.text, args |-> e.args]
KeyNotProvided == [text |-> "Anthropic API Key not provided.", args |-> <<>>]

Ok(val) == [raised |-> FALSE, val |-> val, error |-> NoError]
Raised(e) == [raised |-> TRUE, val |-> PyNone, error |-> e]

(***************************************************************************)
(* request_router and the conditional edge's path map                      *)
(***************************************************************************)
\* x in (a, b, ...): some member equals x
PyIn(x, tuple) == \E i \in 1..Len(tuple) : PyEq(tuple[i], x)

request_router(st) ==
    IF PyIn(st["recClassification"], <<PyFalse, PyTrue>>)
    THEN Ok(st["recClassification"])
    ELSE Raised(RoutingError)

\* a path map with the two targets exchanged
PathMapExchanged ==
    << [key |-> PyInt("0", 0), node |-> "request_processing"],
       [key |-> PyInt("1", 1), node |-> "END"] >>

\* {1: 'request_processing', 0: END}
PathMap ==
    << [key |-> PyInt("1", 1), node |-> "request_processing"],
       [key |-> PyInt("0", 0), node |-> "END"] >>
\* dictionary lookup: the entry whose key equals (==) the router's value
PathMapGet(value) ==
    PathMap[CHOOSE i \in 1..Len(PathMap) : PyEq(PathMap[i].key, value)].node

(***************************************************************************)
(* request_processor's steps                                               *)
(***************************************************************************)
\* pd.read_csv(DATA_FILENAME), FileNotFoundError caught
read_csv(file) ==
    IF file.present THEN DataFrame(file.columns, file.rows) ELSE EmptyDataFrame

\* obj[key] for a string key
Subscript(obj, key) ==
    CASE obj.t = "dict" -> IF key \in Keys(obj) THEN Ok(Get(obj, key)) ELSE Raised(KeyError(key))
      [] obj.t = "list" -> Raised(TypeError("list indices must be integers or slices, not str"))
      [] obj.t = "str" -> Raised(TypeError("string indices must be integers"))
      [] OTHER -> Raised(TypeError("object is not subscriptable"))

\* (df['FirstName'] == changes['FirstName']) & (df['LastName'] == changes['LastName']),
\* operands evaluated left to right; val is the frame of the selected rows
Locate(df, chg) ==
    LET first == Subscript(chg, "FirstName")
        last == Subscript(chg, "LastName")
    IN  IF "FirstName" \notin ColumnSet(df) THEN Raised(KeyError("FirstName"))
        ELSE IF first.raised THEN first
        ELSE IF "LastName" \notin ColumnSet(df) THEN Raised(KeyError("LastName"))
        ELSE IF last.raised THEN last
        ELSE Ok(DataFrame(df.columns,
                          SelectSeq(df.rows, LAMBDA r : PyEq(r["FirstName"], first.val)
                                                        /\ PyEq(r["LastName"], last.val))))

\* an assignment that only overwrites columns the frame already has
SetExistingColumn(df, column, value) ==
    IF column \in ColumnSet(df)
    THEN DataFrame(df.columns, [i \in 1..Len(df.rows) |-> Update(df.rows[i], column, value)])
    ELSE df

\* new_values[column] = new_value: a scalar fills the column, a list of the frame's
\* length is spread over the rows
SetColumn(df, column, value) ==
    DataFrame(IF column \in ColumnSet(df) THEN df.columns ELSE Append(df.columns, column),
              [i \in 1..Len(df.rows) |->
                  Update(df.rows[i], column,
                         IF value.t = "list" /\ i <= Len(value.items)
                         THEN value.items[i] ELSE value)])

\* the items whose assignment raises: lists of another length than the frame
Unassignable(df, chg) ==
    {i \in 1..Len(chg.items) :
        chg.items[i].val.t = "list" /\ Len(chg.items[i].val.items) # Len(df.rows)}

\* for column, new_value in changes.items(): new_values[column] = new_value
RECURSIVE OverlayFrom(_, _, _)
OverlayFrom(df, kvs, i) ==
    IF i > Len(kvs) THEN df
    ELSE OverlayFrom(SetColumn(df, kvs[i].k, kvs[i].val), kvs, i + 1)

\* an overlay that stops before the last item
OverlayButLast(df, chg) == OverlayFrom(df, SubSeq(chg.items, 1, Len(chg.items) - 1), 1)
\* an overlay that starts from a new empty frame instead of a copy of the located row
OverlayOnEmpty(df, chg) == OverlayFrom(EmptyDataFrame, chg.items, 1)

Overlay(df, chg) == OverlayFrom(df, chg.items, 1)

\* new_values = matching_entry (no copy): both names refer to one frame
NoCopy(df) == [alias |-> TRUE, frame |-> df]

\* matching_entry.copy(): a new frame with the same contents, not shared with df
copy(df) == [alias |-> FALSE, frame |-> df]

(***************************************************************************)
(* The graph: START -> change_request -> {request_processing | END},       *)
(* request_processing -> END                                               *)
(***************************************************************************)
\* a graph entered at the processing node
EntryAtProcessing == "request_processing"
EntryPoint == "change_request"
\* an edge from the processing node back to the classifier
EdgeBackToClassifier == "change_request"
EdgeAfterProcessing == "END"

\* workflow.invoke returns the final state to the caller
Return(st) == [kind |-> "state", state |-> st, error |-> NoError]
\* a controller that downgrades a fault to a partial success: it returns the state so far
PropagateAsPartialState(e) ==
    /\ pc' = "END"
    /\ result' = Return(state)

\* an exception raised in a node leaves workflow.invoke and process_employee_request
Propagate(e) ==
    /\ pc' = "FAILED"
    /\ result' = [kind |-> "raise", state |-> EmptyState, error |-> e]

\* control moves along an edge to node; reaching END ends the invocation
Goto(node, st) ==
    /\ pc' = node
    /\ result' = IF node = "END" THEN Return(st) ELSE result

\* st.session_state once the script has initialised it
NewSession(key) ==
    [anthropic_api_key |-> key, processing_complete |-> FALSE,
     processing_result |-> EmptyState, changes_accepted |-> FALSE]

\* what a script run draws below the input section, given the session
Render(sess, notice) ==
    LET shown == sess.processing_complete
        built == {"currentData", "proposedData"} \subseteq DOMAIN sess.processing_result
    IN [notice |-> notice,
        tables |-> IF ~shown THEN "none" ELSE IF built THEN "shown" ELSE "KeyError",
        accept_button |-> shown /\ built /\ ~sess.changes_accepted,
        confirmation |-> shown /\ built /\ sess.changes_accepted]

NoHistory == [last_success |-> EmptyState, accepted |-> FALSE]

\* the locals of an invocation, as a record
Locals(p, st, out, chg, df, me, nv, res, vis, cs, dec, answer, key, mdl) ==
    [pc |-> p, state |-> st, output |-> out, changes |-> chg, raw_gdp_df |-> df,
     matching_entry |-> me, new_values |-> nv, result |-> res, visited |-> vis,
     calls |-> cs, gwDecision |-> dec, gwOutput |-> answer, api_key |-> key, model |-> mdl]
\* an invocation that has been called and has not taken a step
Called(dec, answer, key) ==
    Locals("CREATE", EmptyState, <<>>, PyNone, EmptyDataFrame, EmptyDataFrame, EmptyDataFrame,
           Pending, <<>>, [classify |-> 0, extract |-> 0, load |-> 0], dec, answer, key, PyNone)
\* no second invocation
Alone ==
    /\ active = 1
    /\ parked = Called(DecisionFault, OutputFault, PyNone)
    /\ environ0 = environ

\* a caller that passed a key, with nothing in the environment and no interface
NoInterface ==
    /\ api_key = PyStr("sk-ant-arg")
    /\ environ = PyNone
    /\ dotenv = PyNone
    /\ model = PyStr("sk-ant-arg")
    /\ caller = "direct"
    /\ session = NewSession(PyStr(""))
    /\ email = Request
    /\ ui_result = EmptyState
    /\ page = Render(session, "none")
    /\ history = NoHistory
    /\ Alone

FreshLocals ==
    /\ state = EmptyState
    /\ output = <<>>
    /\ changes = PyNone
    /\ raw_gdp_df = EmptyDataFrame
    /\ matching_entry = EmptyDataFrame
    /\ new_values = EmptyDataFrame
    /\ result = Pending
    /\ visited = <<>>
    /\ calls = [classify |-> 0, extract |-> 0, load |-> 0]

InitLocals ==
    /\ pc = "START"
    /\ FreshLocals
    /\ NoInterface

Init ==
    /\ gwDecision \in Decisions
    /\ gwOutput \in Outputs
    /\ dataset \in Datasets
    /\ InitLocals

\* process_employee_request: workflow.invoke({"input": message})
Invoke ==
    /\ pc = "START"
    /\ state' = Update(EmptyState, "input", Request)
    /\ pc' = EntryPoint
    /\ UNCHANGED <<gwDecision, gwOutput, dataset, output, changes, raw_gdp_df,
                   matching_entry, new_values, result, visited, calls>>
    /\ UNCHANGED outer

\* node change_request
request_classifier ==
    /\ pc = "change_request"
    /\ visited' = Append(visited, "change_request")
    /\ calls' = [calls EXCEPT !.classify = @ + 1]
    /\ IF gwDecision.kind = "fault"
       THEN Propagate(GatewayFault) /\ UNCHANGED state
       ELSE /\ state' = Update(state, "recClassification", gwDecision.classification)
            /\ pc' = "route"
            /\ UNCHANGED result
    /\ UNCHANGED <<gwDecision, gwOutput, dataset, output, changes, raw_gdp_df,
                   matching_entry, new_values>>
    /\ UNCHANGED outer

\* the conditional edge after change_request
Route ==
    /\ pc = "route"
    /\ LET decision == request_router(state) IN
       IF decision.raised
       THEN Propagate(decision.error)
       ELSE Goto(PathMapGet(decision.val), state)
    /\ UNCHANGED <<gwDecision, gwOutput, dataset, state, output, changes, raw_gdp_df,
                   matching_entry, new_values, visited, calls>>
    /\ UNCHANGED outer

\* node request_processing: output = model.invoke([...])
Extract ==
    /\ pc = "request_processing"
    /\ visited' = Append(visited, "request_processing")
    /\ calls' = [calls EXCEPT !.extract = @ + 1]
    /\ IF gwOutput.kind = "fault"
       THEN Propagate(GatewayFault) /\ UNCHANGED output
       ELSE output' = gwOutput.content /\ pc' = "parse" /\ UNCHANGED result
    /\ UNCHANGED <<gwDecision, gwOutput, dataset, state, changes, raw_gdp_df,
                   matching_entry, new_values>>
    /\ UNCHANGED outer

\* Extracting JSON changes
Parse ==
    /\ pc = "parse"
    /\ LET parsed == JsonLoads(output) IN
       IF ~parsed.ok
       THEN Propagate(ParseError(output)) /\ UNCHANGED changes
       ELSE changes' = parsed.val /\ pc' = "load" /\ UNCHANGED result
    /\ UNCHANGED <<gwDecision, gwOutput, dataset, state, output, raw_gdp_df,
                   matching_entry, new_values, visited, calls>>
    /\ UNCHANGED outer

\* Loading Database at runtime
Load ==
    /\ pc = "load"
    /\ raw_gdp_df' = read_csv(dataset)
    /\ calls' = [calls EXCEPT !.load = @ + 1]
    /\ pc' = "locate"
    /\ UNCHANGED <<gwDecision, gwOutput, dataset, state, output, changes,
                   matching_entry, new_values, result, visited>>
    /\ UNCHANGED outer

\* Locate Person
LocatePerson ==
    /\ pc = "locate"
    /\ LET found == Locate(raw_gdp_df, changes) IN
       IF found.raised
       THEN Propagate(found.error) /\ UNCHANGED matching_entry
       ELSE matching_entry' = found.val /\ pc' = "generate" /\ UNCHANGED result
    /\ UNCHANGED <<gwDecision, gwOutput, dataset, state, output, changes, raw_gdp_df,
                   new_values, visited, calls>>
    /\ UNCHANGED outer

\* Generate Changes, and the node's return
GenerateChanges ==
    /\ pc = "generate"
    /\ IF Shape0(matching_entry) = 0
       THEN Propagate(NotFoundError(changes)) /\ UNCHANGED <<new_values, matching_entry, state>>
       ELSE IF Shape0(matching_entry) = 1
       THEN LET copied == copy(matching_entry)
                bad == Unassignable(copied.frame, changes)
            IN
            IF bad # {}
            THEN LET first == CHOOSE i \in bad : \A j \in bad : i <= j IN
                 /\ Propagate(LengthError(Len(changes.items[first].val.items),
                                          Len(copied.frame.rows)))
                 /\ UNCHANGED <<new_values, matching_entry, state>>
            ELSE
            /\ new_values' = Overlay(copied.frame, changes)
            \* the loop writes into new_values; matching_entry sees it only if shared
            /\ matching_entry' = IF copied.alias THEN new_values' ELSE matching_entry
            /\ state' = Update(Update(Update(state, "output", output),
                                      "currentData", matching_entry'),
                               "proposedData", new_values')
            /\ Goto(EdgeAfterProcessing, state')
       ELSE Propagate(AmbiguousError(changes)) /\ UNCHANGED <<new_values, matching_entry, state>>
    /\ UNCHANGED <<gwDecision, gwOutput, dataset, output, changes, raw_gdp_df,
                   visited, calls>>
    /\ UNCHANGED outer

Next ==
    \/ Invoke
    \/ request_classifier
    \/ Route
    \/ Extract
    \/ Parse
    \/ Load
    \/ LocatePerson
    \/ GenerateChanges

Spec == Init /\ [][Next]_vars

\* the invocation is one synchronous thread: it runs while it has a step to take
FairSpec == Spec /\ WF_vars(Next)

(***************************************************************************)
(* request_router on any value of state['recClassification']: the same     *)
(* graph, entered with a classification that is not coerced to bool.       *)
(***************************************************************************)
RoutingValues ==
    { PyTrue, PyFalse, PyInt("0", 0), PyInt("1", 1), PyInt("2", 2),
      PyStr("True"), PyStr(""), PyNone }

RouterInit ==
    /\ gwDecision \in {Decision(x) : x \in RoutingValues}
    /\ gwOutput \in Outputs
    /\ dataset \in Datasets
    /\ InitLocals

RouterSpec == RouterInit /\ [][Next]_vars

(***************************************************************************)
(* The overlay loop of request_processor on its own: any frame of the      *)
(* store's columns, any parsed object.                                     *)
(***************************************************************************)
Frames == {DataFrame(CsvColumns, rs) : rs \in SeqsUpTo(CandidateRows, MaxRows)}
ParsedObjects == {JsonLoads(t).val : t \in {x \in JsonTexts : JsonLoads(x).val.t = "dict"}}

OverlayInit ==
    /\ gwDecision = Decision(PyTrue)
    /\ gwOutput = OutputFault
    /\ dataset = AbsentDataset
    /\ pc = "overlay"
    /\ state = EmptyState
    /\ output = <<>>
    /\ changes \in ParsedObjects
    /\ raw_gdp_df = EmptyDataFrame
    /\ matching_entry \in Frames
    /\ new_values = EmptyDataFrame
    /\ result = Pending
    /\ visited = <<>>
    /\ calls = [classify |-> 0, extract |-> 0, load |-> 0]
    /\ NoInterface

ApplyOverlay ==
    /\ pc = "overlay"
    /\ new_values' = Overlay(matching_entry, changes)
    /\ pc' = "overlaid"
    /\ UNCHANGED <<gwDecision, gwOutput, dataset, state, output, changes, raw_gdp_df,
                   matching_entry, result, visited, calls>>
    /\ UNCHANGED outer

OverlayNext == ApplyOverlay

OverlaySpec == OverlayInit /\ [][OverlayNext]_vars

(***************************************************************************)
(* create_workflow and its two callers: a direct call of                   *)
(* process_employee_request, and the interface's                           *)
(* process_email_with_langgraph.                                           *)
(***************************************************************************)
ApiKeyArgs == {PyNone, PyStr(""), PyStr("sk-ant-arg")}
EnvValues == {PyNone, PyStr(""), PyStr("sk-ant-env")}
DotenvValues == {PyNone, PyStr(""), PyStr("sk-ant-file")}
SessionKeys == {PyStr(""), PyStr("sk-ant-ui")}

\* the text area's content: empty, blanks only, or a message
Emails == {"", "   ", Request}
strip(e) == IF e = "   " THEN "" ELSE e
WordCount(e) == IF e = Request THEN 2 ELSE 0
CharCount(e) == CASE e = "" -> 0 [] e = "   " -> 3 [] OTHER -> 11

\* load_dotenv(): the file's variable is set unless the environment already has it
load_dotenv(env, file) == IF env = PyNone THEN file ELSE env

\* {**a, **b}
Merge(a, b) == [k \in DOMAIN a \cup DOMAIN b |-> IF k \in DOMAIN b THEN b[k] ELSE a[k]]
ErrorResult(message) == [status |-> "error", error |-> message]

\* create_workflow up to the model's construction
create_workflow ==
    /\ pc = "CREATE"
    /\ LET loaded == IF api_key = PyNone THEN load_dotenv(environ, dotenv) ELSE environ
           key == IF api_key = PyNone THEN loaded ELSE api_key
       IN /\ environ' = loaded
          /\ IF ~Truthy(key)
             THEN Propagate(CredentialError) /\ UNCHANGED model
             ELSE model' = key /\ pc' = "START" /\ UNCHANGED result
    /\ UNCHANGED <<gwDecision, gwOutput, dataset, state, output, changes, raw_gdp_df,
                   matching_entry, new_values, visited, calls>>
    /\ UNCHANGED <<api_key, dotenv, caller, session, email, ui_result, page, history, concurrent>>

\* process_email_with_langgraph up to the call of process_mail
process_email_with_langgraph ==
    /\ pc = "CALL"
    /\ IF ~Truthy(session.anthropic_api_key)
       THEN /\ ui_result' = ErrorResult(KeyNotProvided)
            /\ pc' = "HANDLE"
            /\ UNCHANGED api_key
       ELSE /\ api_key' = session.anthropic_api_key
            /\ pc' = "CREATE"
            /\ UNCHANGED ui_result
    /\ UNCHANGED <<gwDecision, gwOutput, dataset, state, output, changes, raw_gdp_df,
                   matching_entry, new_values, result, visited, calls>>
    /\ UNCHANGED <<environ, dotenv, model, caller, session, email, page, history, concurrent>>

\* process_mail returns or raises inside process_email_with_langgraph
ReturnToInterface ==
    /\ caller = "ui"
    /\ pc \in {"END", "FAILED"}
    /\ ui_result' = IF result.kind = "raise"
                    THEN ErrorResult(StrOf(result.error))
                    ELSE Merge([word_count |-> WordCount(email), char_count |-> CharCount(email)],
                               result.state)
    /\ pc' = "HANDLE"
    /\ UNCHANGED <<gwDecision, gwOutput, dataset, state, output, changes, raw_gdp_df,
                   matching_entry, new_values, result, visited, calls>>
    /\ UNCHANGED <<api_key, environ, dotenv, model, caller, session, email, page, history, concurrent>>

SampleDataset ==
    [present |-> TRUE, columns |-> CsvColumns,
     rows |-> <<Row("Leon", "X", "0780000000", "CH01"), Row("Paolo", "Rossi", "0760000000", "CH03")>>]
\* a few of the gateway's answers: two change sets, a text that is not JSON, a fault
SampleOutputs ==
    { Output(Obj(KV("FirstName", "Leon") \o Comma \o KV("LastName", "X") \o Comma \o KV("PhoneNumber", "0791234567"))),
      Output(Obj(KV("FirstName", "Paolo") \o Comma \o KV("LastName", "Rossi") \o Comma \o KV("Nickname", "Pao"))),
      Output(Obj(KV("FirstName", "Anna") \o Comma \o KV("LastName", "Meier") \o Comma \o KV("IBAN", "CH99"))),
      Output(<<Word("not"), Word("json")>>),
      OutputFault }

CredInit ==
    /\ gwDecision \in Decisions
    /\ gwOutput \in SampleOutputs
    /\ dataset = SampleDataset
    /\ FreshLocals
    /\ caller \in {"direct", "ui"}
    /\ IF caller = "direct"
       THEN pc = "CREATE" /\ api_key \in ApiKeyArgs /\ session = NewSession(PyStr(""))
       ELSE pc = "CALL" /\ api_key = PyNone /\ session \in {NewSession(k) : k \in SessionKeys}
    /\ environ \in EnvValues
    /\ dotenv \in DotenvValues
    /\ model = PyNone
    /\ email = Request
    /\ ui_result = EmptyState
    /\ page = Render(session, "none")
    /\ history = NoHistory
    /\ Alone

CredNext ==
    \/ process_email_with_langgraph
    \/ create_workflow
    \/ ReturnToInterface
    \/ Next

CredSpec == CredInit /\ [][CredNext]_vars

(***************************************************************************)
(* The interface: one browser session.  Between two events the script has  *)
(* run to its end (pc = "IDLE").  An event reruns the script: a new key in *)
(* the sidebar, a click on Process Email, a click on Accept changes.       *)
(***************************************************************************)
\* a handler that takes every result without an error for a success
BranchIgnoringClassification(res) ==
    IF "error" \in DOMAIN res THEN "error" ELSE "success"

\* the branch the Process Email handler takes on a result
HandlerBranch(res) ==
    IF "error" \in DOMAIN res THEN "error"
    ELSE IF PyEq(res["recClassification"], PyFalse) THEN "no_changes"
    ELSE "success"

OnError(sess) == [sess EXCEPT !.processing_complete = FALSE, !.changes_accepted = FALSE]
OnNoChanges(sess) == [sess EXCEPT !.processing_complete = FALSE]
\* a success branch without the reset of changes_accepted
OnSuccessKeepingAccepted(sess, res) ==
    [sess EXCEPT !.processing_complete = TRUE, !.processing_result = res]
OnSuccess(sess, res) ==
    [sess EXCEPT !.processing_complete = TRUE, !.processing_result = res,
                 !.changes_accepted = FALSE]

\* the sidebar's text input takes another value
SetKey ==
    /\ pc = "IDLE"
    /\ \E k \in SessionKeys \ {session.anthropic_api_key} :
          session' = [session EXCEPT !.anthropic_api_key = k]
    /\ page' = Render(session', "none")
    /\ UNCHANGED <<gwDecision, gwOutput, dataset, invocation>>
    /\ UNCHANGED <<api_key, environ, dotenv, model, caller, email, ui_result, history,
                   concurrent>>

\* a click on Process Email, up to the call of process_email_with_langgraph
ClickProcess ==
    /\ pc = "IDLE"
    /\ \E e \in Emails :
          /\ email' = e
          /\ IF strip(e) = ""
             THEN /\ page' = Render(session, "warning")
                  /\ UNCHANGED <<pc, gwDecision, gwOutput>>
             ELSE /\ pc' = "CALL"
                  /\ gwDecision' \in Decisions
                  /\ gwOutput' \in Outputs
                  /\ UNCHANGED page
    /\ UNCHANGED <<dataset, state, output, changes, raw_gdp_df, matching_entry, new_values,
                   result, visited, calls>>
    /\ UNCHANGED <<api_key, environ, dotenv, model, caller, session, ui_result, history,
                   concurrent>>

\* the rest of the Process Email handler and of the script run
Handle ==
    /\ pc = "HANDLE"
    /\ LET branch == HandlerBranch(ui_result) IN
       /\ session' = CASE branch = "error" -> OnError(session)
                        [] branch = "no_changes" -> OnNoChanges(session)
                        [] OTHER -> OnSuccess(session, ui_result)
       /\ page' = Render(session', branch)
       /\ history' = IF branch \in {"error", "no_changes"} THEN history
                     ELSE [last_success |-> ui_result, accepted |-> FALSE]
    \* the locals of the call and of the handler are gone
    /\ pc' = "IDLE"
    /\ state' = EmptyState
    /\ output' = <<>>
    /\ changes' = PyNone
    /\ raw_gdp_df' = EmptyDataFrame
    /\ matching_entry' = EmptyDataFrame
    /\ new_values' = EmptyDataFrame
    /\ result' = Pending
    /\ visited' = <<>>
    /\ calls' = [classify |-> 0, extract |-> 0, load |-> 0]
    /\ api_key' = PyNone
    /\ model' = PyNone
    /\ ui_result' = EmptyState
    /\ UNCHANGED <<gwDecision, gwOutput, dataset, environ, dotenv, caller, email, concurrent>>

\* a click on Accept changes, and the rerun it asks for
ClickAccept ==
    /\ pc = "IDLE"
    /\ page.accept_button
    /\ session' = [session EXCEPT !.changes_accepted = TRUE]
    /\ page' = Render(session', "none")
    /\ history' = [history EXCEPT !.accepted = TRUE]
    /\ UNCHANGED <<gwDecision, gwOutput, dataset, invocation>>
    /\ UNCHANGED <<api_key, environ, dotenv, model, caller, email, ui_result, concurrent>>

UiInit ==
    /\ gwDecision = DecisionFault
    /\ gwOutput = OutputFault
    /\ dataset \in {SampleDataset, AbsentDataset}
    /\ pc = "IDLE"
    /\ FreshLocals
    /\ api_key = PyNone
    /\ environ = PyNone
    /\ dotenv = PyNone
    /\ model = PyNone
    /\ caller = "ui"
    /\ session = NewSession(PyStr(""))
    /\ email = ""
    /\ ui_result = EmptyState
    /\ page = Render(session, "none")
    /\ history = NoHistory
    /\ Alone

UiNext ==
    \/ SetKey
    \/ ClickProcess
    \/ process_email_with_langgraph
    \/ create_workflow
    \/ Next
    \/ ReturnToInterface
    \/ Handle
    \/ ClickAccept

UiSpec == UiInit /\ [][UiNext]_vars

(***************************************************************************)
(* Two concurrent invocations of process_employee_request.  Each call has  *)
(* its own create_workflow, so the model, the graph, the State and the     *)
(* locals of request_processor belong to the call; the file, the .env file *)
(* and os.environ belong to the process.  A step is a stage step of the    *)
(* active invocation; Switch hands the processor to the other one.         *)
(***************************************************************************)
\* the active invocation's locals
Own ==
    Locals(pc, state, output, changes, raw_gdp_df, matching_entry, new_values, result,
           visited, calls, gwDecision, gwOutput, api_key, model)

\* a changes that is one module-level name: the resumed invocation finds in it what
\* the other one left there
ResumeWithGlobalChanges(mine, theirs) == [mine EXCEPT !.changes = theirs.changes]

\* what an invocation finds when it is resumed: its own locals
Resume(mine, theirs) == mine

Switch ==
    /\ active' = 3 - active
    /\ parked' = Own
    /\ LET r == Resume(parked, Own) IN
       /\ pc' = r.pc
       /\ state' = r.state
       /\ output' = r.output
       /\ changes' = r.changes
       /\ raw_gdp_df' = r.raw_gdp_df
       /\ matching_entry' = r.matching_entry
       /\ new_values' = r.new_values
       /\ result' = r.result
       /\ visited' = r.visited
       /\ calls' = r.calls
       /\ gwDecision' = r.gwDecision
       /\ gwOutput' = r.gwOutput
       /\ api_key' = r.api_key
       /\ model' = r.model
    /\ UNCHANGED <<dataset, environ, dotenv, environ0, caller, session, email, ui_result, page,
                   history>>

ConcDecisions == Decisions
ConcOutputs == SampleOutputs
ConcKeys == {PyNone, PyStr("sk-ant-arg")}

ConcInit ==
    /\ gwDecision \in ConcDecisions
    /\ gwOutput \in ConcOutputs
    /\ dataset = SampleDataset
    /\ pc = "CREATE"
    /\ FreshLocals
    /\ api_key \in ConcKeys
    /\ environ \in {PyNone, PyStr("sk-ant-env")}
    /\ dotenv \in {PyNone, PyStr("sk-ant-file")}
    /\ model = PyNone
    /\ caller = "direct"
    /\ session = NewSession(PyStr(""))
    /\ email = Request
    /\ ui_result = EmptyState
    /\ page = Render(session, "none")
    /\ history = NoHistory
    /\ active = 1
    /\ parked \in {Called(d, o, k) : d \in ConcDecisions, o \in ConcOutputs, k \in ConcKeys}
    /\ environ0 = environ

ConcNext ==
    \/ create_workflow
    \/ Next
    \/ Switch

ConcSpec == ConcInit /\ [][ConcNext]_vars

(***************************************************************************)
(* Terminal states and fault kinds, in the words of the design             *)
(***************************************************************************)
Range(seq) == {seq[i] : i \in 1..Len(seq)}
ROUTED_END == pc = "END" /\ visited = <<"change_request">>
DONE == pc = "END" /\ visited = <<"change_request", "request_processing">>
FAILED == pc = "FAILED"
Terminal == pc \in {"END", "FAILED"}

IsEmployeeNotFound(e) == e.type = "ValueError" /\ e.text = "No employee found for {} {}."
IsAmbiguousEmployeeMatch(e) ==
    e.type = "ValueError" /\ e.text = "Found more than one employee for {} {}."
IsExtractionParseError(e) ==
    e.type = "ValueError" /\ e.text = "There was no valid JSON parsed {}"
IsInvalidRoutingDecision(e) == e.type = "ValueError" /\ e.text = "Invalid decision value"

\* the gateway's answers, as the design speaks of them
ClassifiedFalse == gwDecision = Decision(PyFalse)
ClassifiedTrue == gwDecision = Decision(PyTrue)
Extracted == JsonLoads(gwOutput.content)
ExtractionIsJson == gwOutput.kind = "text" /\ Extracted.ok
\* a flat object of scalar values that names its subject
IsFieldChangeSet(d) ==
    /\ d.t = "dict"
    /\ \A i \in 1..Len(d.items) : IsScalar(d.items[i].val)
    /\ {"FirstName", "LastName"} \subseteq Keys(d)
\* the rows of the file whose names are exactly those of d
NameRows(d) ==
    {i \in 1..Len(dataset.rows) :
        /\ dataset.rows[i]["FirstName"] = Get(d, "FirstName")
        /\ dataset.rows[i]["LastName"] = Get(d, "LastName")}

(***************************************************************************)
(* Properties                                                              *)
(***************************************************************************)

\* C1: when the gateway reports classification = false, request_processor never
\* runs, no fault is raised, and the invocation ends in ROUTED_END returning a
\* state without currentData, proposedData and output.
C1_Safe ==
    ClassifiedFalse =>
        /\ "request_processing" \notin Range(visited)
        /\ calls.extract = 0 /\ calls.load = 0
        /\ pc \in {"START", "change_request", "route", "END"}
        /\ result.kind # "raise"
        /\ pc = "END" =>
              /\ ROUTED_END
              /\ result.kind = "state"
              /\ DOMAIN result.state \cap {"currentData", "proposedData", "output"} = {}
C1_RoutedEnd == [](C1_Safe) /\ (ClassifiedFalse ~> (ROUTED_END /\ result.kind = "state"))
C1_Witness ==
    /\ ClassifiedFalse /\ ROUTED_END
    /\ result.kind = "state"
    /\ DOMAIN result.state = {"input", "recClassification"}

\* C2: classification true, the extraction is JSON for a FieldChangeSet and exactly
\* one row of the store bears its names: the invocation never fails, and ends in
\* DONE with currentData that row and proposedData that row with exactly the
\* FieldChangeSet's keys set to its values, every other column as in currentData.
C2_Pre ==
    /\ ClassifiedTrue
    /\ ExtractionIsJson
    /\ IsFieldChangeSet(Extracted.val)
    /\ dataset.present
    /\ Cardinality(NameRows(Extracted.val)) = 1
C2_Reconciled ==
    C2_Pre =>
        /\ pc # "FAILED"
        /\ pc = "END" =>
            /\ DONE
            /\ result.kind = "state"
            /\ LET fcs == Extracted.val
                   row == dataset.rows[CHOOSE i \in NameRows(fcs) : TRUE]
                   cur == result.state["currentData"]
                   prop == result.state["proposedData"]
               IN  /\ cur = DataFrame(dataset.columns, <<row>>)
                   /\ Len(prop.rows) = 1
                   /\ DOMAIN prop.rows[1] = DOMAIN row \cup Keys(fcs)
                   /\ ColumnSet(prop) = DOMAIN row \cup Keys(fcs)
                   /\ \A c \in DOMAIN prop.rows[1] :
                         prop.rows[1][c] = IF c \in Keys(fcs) THEN Get(fcs, c) ELSE row[c]
C2_Witness ==
    /\ C2_Pre /\ DONE
    /\ result.state["proposedData"].rows[1]["PhoneNumber"] = PyStr("0791234567")
    /\ result.state["currentData"].rows[1]["PhoneNumber"] # PyStr("0791234567")
    /\ result.state["proposedData"].rows[1]["IBAN"] = result.state["currentData"].rows[1]["IBAN"]

\* C3: once the extraction is a FieldChangeSet, a lookup with no row of the store
\* bearing its names always ends in EmployeeNotFound, one with two or more such
\* rows always ends in AmbiguousEmployeeMatch, and neither yields a proposed record.
\* (The store is what the file holds; an absent file is an empty store.)
StoreRows(d) == IF dataset.present THEN NameRows(d) ELSE {}
C3_LookupFaults ==
    (ClassifiedTrue /\ ExtractionIsJson /\ IsFieldChangeSet(Extracted.val) /\ Terminal) =>
        LET n == Cardinality(StoreRows(Extracted.val)) IN
        /\ n = 0 => FAILED /\ IsEmployeeNotFound(result.error)
        /\ n >= 2 => FAILED /\ IsAmbiguousEmployeeMatch(result.error)
        /\ n # 1 => new_values = EmptyDataFrame /\ result.kind = "raise"

\* C4: an extraction answer that is not JSON always ends in ExtractionParseError
\* carrying the raw text, and the store is neither loaded nor queried.
C4_Pre == ClassifiedTrue /\ gwOutput.kind = "text" /\ gwOutput.content \in MalformedTexts
C4_ParseError ==
    C4_Pre =>
        /\ calls.load = 0
        /\ pc \notin {"load", "locate", "generate", "END"}
        /\ raw_gdp_df = EmptyDataFrame /\ matching_entry = EmptyDataFrame
        /\ pc = "FAILED" =>
              /\ result.kind = "raise"
              /\ IsExtractionParseError(result.error)
              /\ result.error.args = <<gwOutput.content>>
C4_Witness ==
    /\ C4_Pre /\ FAILED
    /\ gwOutput.content = <<Word("not"), Word("json")>>
    /\ IsExtractionParseError(result.error)
    /\ calls.extract = 1

\* C5: with the dataset absent, classification true and an extraction that is JSON,
\* the invocation always fails with EmployeeNotFound and with no other fault.
C5_AbsentDataset ==
    (~dataset.present /\ ClassifiedTrue /\ ExtractionIsJson /\ Terminal) =>
        FAILED /\ IsEmployeeNotFound(result.error)

\* C6: an extraction that is a JSON object with neither FirstName nor LastName
\* always fails with EmployeeNotFound, whatever the store contains.
C6_Pre ==
    /\ ClassifiedTrue /\ ExtractionIsJson
    /\ Extracted.val.t = "dict"
    /\ Keys(Extracted.val) \cap {"FirstName", "LastName"} = {}
C6_MissingNames == (C6_Pre /\ Terminal) => FAILED /\ IsEmployeeNotFound(result.error)

Includes(e, s) == \E i \in 1..Len(e.args) : e.args[i] = s
IncludesSearchedName(e) ==
    /\ Includes(e, Get(changes, "FirstName").v)
    /\ Includes(e, Get(changes, "LastName").v)
C8_FaultContext ==
    (FAILED /\ result.kind = "raise") =>
        /\ IsEmployeeNotFound(result.error) => IncludesSearchedName(result.error)
        /\ IsAmbiguousEmployeeMatch(result.error) =>
              /\ IncludesSearchedName(result.error)
              /\ Includes(result.error, NatStr(Shape0(matching_entry)))

\* C9: true routes to the extraction stage, false routes to END, and any other
\* value of the routing decision (a number, a string, none) raises
\* InvalidRoutingDecision, after which no stage runs.
Routed == gwDecision.kind = "decision" /\ pc \notin {"START", "change_request", "route"}
C10_Inv ==
    /\ calls.classify <= 1 /\ calls.extract <= 1
    /\ \A i, j \in 1..Len(visited) : visited[i] = visited[j] => i = j
    /\ (gwDecision.kind = "fault" /\ calls.classify = 1) =>
          /\ FAILED /\ result.error = GatewayFault
          /\ visited = <<"change_request">> /\ calls.extract = 0
    /\ (gwOutput.kind = "fault" /\ calls.extract = 1) =>
          /\ FAILED /\ result.error = GatewayFault /\ calls.load = 0
    /\ FAILED <=> result.kind = "raise"
    /\ result.kind = "raise" => result.state = EmptyState /\ result.error # NoError
C10_NoRetry ==
    /\ [](C10_Inv)
    /\ [][FAILED => (pc' = "FAILED" /\ result' = result /\ visited' = visited /\ calls' = calls)]_vars
C10_Witness ==
    /\ FAILED /\ gwOutput.kind = "fault"
    /\ calls.classify = 1 /\ calls.extract = 1
    /\ result = [kind |-> "raise", state |-> EmptyState, error |-> GatewayFault]

\* C11: the pipeline only reads employee data: the file is never written, the
\* loaded store keeps the file's rows, and in DONE the current record is still the
\* stored row in every column, also in the columns the proposed record overrides.
FileContents ==
    IF dataset.present THEN DataFrame(dataset.columns, dataset.rows) ELSE EmptyDataFrame
C11_Inv ==
    /\ calls.load = 1 => raw_gdp_df = FileContents
    /\ DONE =>
          LET cur == result.state["currentData"] IN
          /\ cur = matching_entry
          /\ cur.columns = dataset.columns
          /\ Len(cur.rows) = 1
          /\ cur.rows[1] \in Range(dataset.rows)
C11_ReadOnly == [](C11_Inv) /\ [][dataset' = dataset]_vars
C11_Witness ==
    /\ DONE
    /\ result.state["currentData"].rows[1] \in Range(dataset.rows)
    /\ result.state["proposedData"].rows[1]["IBAN"] = PyStr("CH99")
    /\ result.state["currentData"].rows[1]["IBAN"] = PyStr("CH03")

\* C12: with classification true and exactly one matching row, an extraction with a
\* key outside the recognized fields is not rejected: the run never fails, and in
\* DONE the proposed record has the key as a further column holding the extracted
\* value while the current record has no such column.
UnrecognizedKeys(d) == {k \in Keys(d) : k \notin RecognizedFields}
C12_Pre == C2_Pre /\ UnrecognizedKeys(Extracted.val) # {}
C12_PassThrough ==
    C12_Pre =>
        /\ pc # "FAILED"
        /\ pc = "END" =>
            /\ DONE
            /\ LET cur == result.state["currentData"]
                   prop == result.state["proposedData"]
               IN \A k \in UnrecognizedKeys(Extracted.val) :
                    /\ k \in ColumnSet(prop)
                    /\ k \in DOMAIN prop.rows[1]
                    /\ prop.rows[1][k] = Get(Extracted.val, k)
                    /\ k \notin ColumnSet(cur)
                    /\ k \notin DOMAIN cur.rows[1]
                    /\ ColumnSet(prop) = ColumnSet(cur) \cup Keys(Extracted.val)
C12_Witness ==
    /\ C12_Pre /\ DONE
    /\ "Nickname" \in ColumnSet(result.state["proposedData"])
    /\ result.state["proposedData"].rows[1]["Nickname"] = PyStr("Pao")
    /\ "Nickname" \notin ColumnSet(result.state["currentData"])

\* C16: an extraction that is valid JSON but not a flat object of scalar values
\* never reaches the store load, the lookup or the reconciliation, and so never
\* ends in DONE with a proposed record.
IsFlatObject(d) == d.t = "dict" /\ \A i \in 1..Len(d.items) : IsScalar(d.items[i].val)
C16_Pre == ExtractionIsJson /\ ~IsFlatObject(Extracted.val)
C16_ShapeValidated ==
    C16_Pre =>
        /\ pc \notin {"load", "locate", "generate"}
        /\ calls.load = 0
        /\ ~DONE

\* C14: without a credential no gateway call is made.  A direct call whose api_key
\* is empty or absent, with no ANTHROPIC_API_KEY in the environment or the .env
\* file, fails in create_workflow before any stage runs; the interface's
\* process_email_with_langgraph returns an error result without calling the
\* pipeline when the session's key is empty; and no gateway is ever called with a
\* model built without a key.
NoStageRan == visited = <<>> /\ calls = [classify |-> 0, extract |-> 0, load |-> 0]
Missing(key) == key \in {PyNone, PyStr("")}
NoCredential == Missing(api_key) /\ Missing(environ) /\ Missing(dotenv)
C14_NoCredentialNoCall ==
    /\ (caller = "direct" /\ NoCredential) =>
          /\ pc \in {"CREATE", "FAILED"}
          /\ NoStageRan /\ model = PyNone
          /\ pc = "FAILED" => result = [kind |-> "raise", state |-> EmptyState, error |-> CredentialError]
    /\ (caller = "ui" /\ Missing(session.anthropic_api_key)) =>
          /\ pc \in {"CALL", "HANDLE"}
          /\ NoStageRan /\ model = PyNone /\ result = Pending
          /\ pc = "HANDLE" => ui_result = ErrorResult(KeyNotProvided)
    /\ (calls.classify > 0 \/ calls.extract > 0) => ~Missing(model)
C14_Witness ==
    /\ caller = "direct" /\ api_key = PyNone /\ environ = PyNone /\ dotenv = PyNone
    /\ FAILED /\ result.error = CredentialError /\ NoStageRan
C14_InterfaceWitness ==
    /\ caller = "ui" /\ session.anthropic_api_key = PyStr("")
    /\ pc = "HANDLE" /\ ui_result = ErrorResult(KeyNotProvided) /\ NoStageRan

\* C15: the transition order.  The extraction gateway is called only after the
\* classification returned true, the store is loaded only after the extraction
\* text parsed as JSON, DONE is reached only after a lookup with exactly one
\* match; an execution ends without a fault only in ROUTED_END or DONE, and every
\* other ending is FAILED and hands the caller a fault.
C15_Inv ==
    /\ calls.extract > 0 =>
          /\ calls.classify = 1 /\ gwDecision = Decision(PyTrue)
          /\ Len(visited) >= 1 /\ visited[1] = "change_request"
    /\ calls.load > 0 => calls.extract = 1 /\ ExtractionIsJson
    /\ ROUTED_END => gwDecision = Decision(PyFalse) /\ calls.extract = 0 /\ calls.load = 0
    /\ DONE =>
          /\ calls.load = 1 /\ dataset.present
          /\ Cardinality({i \in 1..Len(dataset.rows) :
                  /\ dataset.rows[i]["FirstName"] = Get(Extracted.val, "FirstName")
                  /\ dataset.rows[i]["LastName"] = Get(Extracted.val, "LastName")}) = 1
    /\ pc = "END" => (ROUTED_END \/ DONE) /\ result.kind = "state"
    /\ pc = "FAILED" => result.kind = "raise" /\ result.error # NoError
    /\ result.kind # "pending" => Terminal
C15_Order ==
    /\ [](C15_Inv)
    /\ [][calls.extract' > calls.extract =>
             (calls.classify = 1 /\ state["recClassification"] = PyTrue)]_vars
    /\ [][calls.load' > calls.load => (calls.extract = 1 /\ changes = Extracted.val)]_vars
    /\ [][(DONE' /\ ~DONE) => (pc = "generate" /\ Shape0(matching_entry) = 1)]_vars
C15_Witness ==
    /\ DONE /\ calls = [classify |-> 1, extract |-> 1, load |-> 1]
    /\ Shape0(matching_entry) = 1 /\ Len(dataset.rows) = MaxRows

\* C17: with every gateway call returning or failing, every invocation eventually
\* reaches a terminal state, exactly one of ROUTED_END, DONE and FAILED, and stays
\* there with the same result; no stage is entered twice.
ExactlyOneTerminal ==
    Cardinality({t \in {"ROUTED_END", "DONE", "FAILED"} :
        \/ t = "ROUTED_END" /\ ROUTED_END
        \/ t = "DONE" /\ DONE
        \/ t = "FAILED" /\ FAILED}) = 1
C17_Terminates ==
    /\ <>Terminal
    /\ [](Terminal => ExactlyOneTerminal)
    /\ [][Terminal => (pc' = pc /\ result' = result /\ visited' = visited)]_vars
    /\ [](\A i, j \in 1..Len(visited) : visited[i] = visited[j] => i = j)
    /\ [](Len(visited) <= 2)
C17_Witness ==
    /\ FAILED /\ visited = <<"change_request", "request_processing">>
    /\ calls.load = 1 /\ IsAmbiguousEmployeeMatch(result.error)

\* C13: two concurrent invocations are independent.  Under every interleaving of
\* their stage steps, each one ends with the outcome (terminal state,
\* classification, current and proposed record, raw text, or fault) it has when
\* it runs alone with the same gateway answers, key, environment and file.
Raise(e) == [kind |-> "raise", state |-> EmptyState, error |-> e]
LongLists(chg) ==
    {i \in 1..Len(chg.items) : chg.items[i].val.t = "list" /\ Len(chg.items[i].val.items) # 1}
Reconcile(st, text, chg, file) ==
    LET found == Locate(read_csv(file), chg) IN
    IF found.raised THEN Raise(found.error)
    ELSE IF Shape0(found.val) = 0 THEN Raise(NotFoundError(chg))
    ELSE IF Shape0(found.val) > 1 THEN Raise(AmbiguousError(chg))
    ELSE IF LongLists(chg) # {}
    THEN Raise(LengthError(Len(chg.items[CHOOSE i \in LongLists(chg) :
                                   \A j \in LongLists(chg) : i <= j].val.items), 1))
    ELSE Return([input |-> st["input"], recClassification |-> st["recClassification"],
                 output |-> text, currentData |-> found.val,
                 proposedData |-> Overlay(found.val, chg)])
RunAlone(dec, answer, file, key, env, envfile) ==
    LET k == IF key # PyNone THEN key ELSE IF env # PyNone THEN env ELSE envfile
        st == [input |-> Request, recClassification |-> dec.classification]
    IN  IF Missing(k) THEN Raise(CredentialError)
        ELSE IF dec.kind = "fault" THEN Raise(GatewayFault)
        ELSE IF dec.classification = PyFalse THEN Return(st)
        ELSE IF answer.kind = "fault" THEN Raise(GatewayFault)
        ELSE IF ~JsonLoads(answer.content).ok THEN Raise(ParseError(answer.content))
        ELSE Reconcile(st, answer.content, JsonLoads(answer.content).val, file)
C13_Independent ==
    /\ Terminal => result = RunAlone(gwDecision, gwOutput, dataset, api_key, environ0, dotenv)
    /\ parked.pc \in {"END", "FAILED"} =>
          parked.result = RunAlone(parked.gwDecision, parked.gwOutput, dataset,
                                   parked.api_key, environ0, dotenv)
C13_Witness ==
    /\ DONE /\ parked.pc = "END" /\ parked.visited = visited
    /\ result.state["currentData"].rows[1]["FirstName"] = PyStr("Leon")
    /\ parked.result.state["currentData"].rows[1]["FirstName"] = PyStr("Paolo")
    /\ "Nickname" \notin ColumnSet(result.state["proposedData"])
    /\ api_key = PyNone /\ parked.api_key = PyNone /\ environ0 = PyNone

\* C18: in every session state, processing_complete = True implies that
\* processing_result is a pipeline result with classification true and with
\* currentData and proposedData; no result with an error or with classification
\* false is ever stored, so the tables are only ever built from a DONE result.
IsDoneResult(r) ==
    /\ {"recClassification", "currentData", "proposedData", "output", "input"} \subseteq DOMAIN r
    /\ "error" \notin DOMAIN r
    /\ r["recClassification"] = PyTrue
    /\ Len(r["currentData"].rows) = 1
    /\ Len(r["proposedData"].rows) = 1
C18_Inv ==
    /\ session.processing_complete => IsDoneResult(session.processing_result)
    /\ DOMAIN session.processing_result # {} => IsDoneResult(session.processing_result)
    /\ page.tables # "KeyError"
    /\ page.tables = "shown" => IsDoneResult(session.processing_result)
C18_OnlyDoneDisplayed ==
    /\ [](C18_Inv)
    /\ [][(pc = "HANDLE" /\ session'.processing_result # session.processing_result) =>
             (/\ session'.processing_result = ui_result
              /\ IsDoneResult(ui_result)
              /\ result.kind = "state"
              /\ visited = <<"change_request", "request_processing">>)]_vars
C18_Witness ==
    /\ session.processing_complete /\ page.tables = "shown" /\ pc = "IDLE"
    /\ "Nickname" \in ColumnSet(session.processing_result["proposedData"])
    /\ page.notice = "warning"

\* C19: the confirmation is displayed only if Accept changes was clicked after the
\* most recent successful Process Email, for the result on display: a successful
\* Process Email resets changes_accepted, and one that fails or finds no change
\* hides the earlier result and its confirmation.
C19_Inv ==
    page.confirmation =>
        /\ history.accepted
        /\ session.processing_complete /\ page.tables = "shown"
        /\ session.processing_result = history.last_success
C19_ConfirmationIsCurrent ==
    /\ [](C19_Inv)
    /\ [][(pc = "HANDLE" /\ session'.processing_complete) =>
             (/\ ~session'.changes_accepted /\ ~page'.confirmation
              /\ session'.processing_result = ui_result)]_vars
    /\ [][(pc = "HANDLE" /\ ~session'.processing_complete) =>
             (page'.tables = "none" /\ ~page'.confirmation /\ ~page'.accept_button)]_vars
C19_Witness ==
    /\ page.confirmation /\ history.accepted /\ pc = "IDLE"
    /\ session.processing_result = history.last_success
    /\ session.processing_result["currentData"].rows[1]["FirstName"] = PyStr("Leon")

(***************************************************************************)
(* What the code does where it departs from C3, C5, C6, C8 and C9          *)
(***************************************************************************)
\* with the file present the lookup faults are as C3 states them
LookupFaultsWithDatasetPresent == dataset.present => C3_LookupFaults
\* an absent file gives a frame without columns: df['FirstName'] raises KeyError
AbsentDatasetRaisesKeyError ==
    (~dataset.present /\ ClassifiedTrue /\ ExtractionIsJson /\ Terminal) =>
        FAILED /\ result.error = KeyError("FirstName")
\* an object without the names: changes['FirstName'] (or df['FirstName']) raises KeyError
MissingNamesRaiseKeyError ==
    (C6_Pre /\ Terminal) => FAILED /\ result.error = KeyError("FirstName")
\* both lookup faults interpolate the searched name and nothing else
LookupFaultsNameOnly ==
    (FAILED /\ (IsEmployeeNotFound(result.error) \/ IsAmbiguousEmployeeMatch(result.error))) =>
        /\ IncludesSearchedName(result.error)
        /\ Len(result.error.args) = 2
\* the router accepts every value equal (==) to True or False, so 1 and 0 too
RoutingByEquality ==
    Routed =>
        LET v == gwDecision.classification IN
        /\ PyEq(v, PyTrue) => "request_processing" \in Range(visited) \/ pc = "request_processing"
        /\ PyEq(v, PyFalse) => ROUTED_END
        /\ (~PyEq(v, PyTrue) /\ ~PyEq(v, PyFalse)) =>
              /\ FAILED /\ IsInvalidRoutingDecision(result.error)
              /\ visited = <<"change_request">> /\ calls.extract = 0

\* a list of one element as a value passes the parse step and, with one matching
\* row, its element becomes the proposed record's value
NestedListReachesProposed ==
    (/\ ClassifiedTrue /\ ExtractionIsJson /\ dataset.present
     /\ Extracted.val.t = "dict"
     /\ HasKey(Extracted.val, "PhoneNumber")
     /\ Get(Extracted.val, "PhoneNumber") = PyList(<<PyStr("0791234567")>>)
     /\ Cardinality(NameRows(Extracted.val)) = 1
     /\ pc = "END")
    => /\ DONE
       /\ result.state["proposedData"].rows[1]["PhoneNumber"] = PyStr("0791234567")
       /\ result.state["currentData"].rows[1]["PhoneNumber"] = PyStr("0760000000")
NestedListDone ==
    /\ DONE /\ C16_Pre
    /\ result.state["proposedData"].rows[1]["PhoneNumber"] = PyStr("0791234567")
\* a JSON array or string passes the parse step and fails only in the lookup
NonObjectFailsInLookup ==
    (ClassifiedTrue /\ ExtractionIsJson /\ Extracted.val.t # "dict" /\ dataset.present
     /\ Terminal)
    => (FAILED /\ calls.load = 1 /\ result.error.type = "TypeError")

====
